---- MODULE Spec2Model ----
(***************************************************************************)
(* A model of the benchmarking harness (test.py) and of the plot renderer  *)
(* (graphs.py).                                                            *)
(*                                                                         *)
(* Text.  A string is a sequence of atoms; an atom is a fixed piece of     *)
(* text ("gen", "_", "100", "grid_hashing", ...).  Concatenation is \o,    *)
(* the empty string is << >>.  The separators the code splits or joins on  *)
(* (" ", ".", "_", ",", "/", "\n") are always atoms of their own, so       *)
(* split, join, replace, strip, startswith and removesuffix are computed   *)
(* on the atoms the way Python computes them on the characters.            *)
(*                                                                         *)
(* Files.  A file under data/ holds a text (a string with "\n" atoms); the *)
(* results CSV holds a sequence of lines.                                  *)
(*                                                                         *)
(* External binaries (generator, solvers, judges) are not part of the      *)
(* repository: their exit code and their output are inputs of the model.   *)
(***************************************************************************)
EXTENDS Integers, Sequences, FiniteSets, TLC

\* ------------------------------------------------------------------ bounds

\* Harness invocations in one behaviour of SpecRuns.
MaxRuns == 2
\* The sweep over SIZES x DIMENSIONS is cut after this many combinations:
\* in one invocation (Spec), and in each of several (SpecRuns).
MaxInstances == 2
RunInstances == 1
\* CSV rows the plot renderer reads in one behaviour.
MaxRows == 2
\* Lines the buffer of the open results file holds before it writes them
\* through to the disk (io.DEFAULT_BUFFER_SIZE, counted in rows).
BufRows == 2

\* ------------------------------------------------------------ text helpers

\* str(n) and int(s) on the numerals the model uses.
NumTable ==
    { <<0, "0">>, <<1, "1">>, <<2, "2">>, <<3, "3">>, <<4, "4">>, <<5, "5">>,
      <<10, "10">>, <<22, "22">>, <<31, "31">>, <<70, "70">>, <<100, "100">>,
      <<223, "223">>, <<316, "316">>, <<500, "500">>, <<707, "707">>,
      <<1000, "1000">>, <<5000, "5000">>, <<10000, "10000">>,
      <<50000, "50000">>, <<100000, "100000">>, <<500000, "500000">>,
      <<1000000, "1000000">> }

str(n) == << (CHOOSE p \in NumTable : p[1] = n)[2] >>

IsNumeral(s) == Len(s) = 1 /\ \E p \in NumTable : p[2] = s[1]

int(s) == (CHOOSE p \in NumTable : p[2] = s[1])[1]

\* Atoms that stand for exactly one character.
OneChar == {"n", "d", "x", "y", "z", " ", ".", "_", ",", "/", "\n"}

Whitespace == {" ", "\n"}

RECURSIVE Concat(_)
\* The concatenation of a sequence of strings.
Concat(ss) == IF ss = << >> THEN << >> ELSE Head(ss) \o Concat(Tail(ss))

RECURSIVE join(_, _)
\* sep.join(parts)
join(sep, parts) ==
    IF parts = << >> THEN << >>
    ELSE IF Len(parts) = 1 THEN parts[1]
    ELSE parts[1] \o sep \o join(sep, Tail(parts))

RECURSIVE SplitAcc(_, _, _)
SplitAcc(s, sep, cur) ==
    IF s = << >> THEN << cur >>
    ELSE IF Head(s) = sep THEN << cur >> \o SplitAcc(Tail(s), sep, << >>)
    ELSE SplitAcc(Tail(s), sep, Append(cur, Head(s)))

\* s.split(sep) for a one-atom separator: empty parts are kept.
split(s, sep) == SplitAcc(s, sep, << >>)

\* s.split(): split on runs of whitespace, no empty parts.
split_ws(s) ==
    LET RECURSIVE go(_, _)
        go(r, cur) ==
            IF r = << >> THEN (IF cur = << >> THEN << >> ELSE << cur >>)
            ELSE IF Head(r) \in Whitespace
                 THEN (IF cur = << >> THEN << >> ELSE << cur >>) \o go(Tail(r), << >>)
                 ELSE go(Tail(r), Append(cur, Head(r)))
    IN go(s, << >>)

\* s.replace(a, b) for one-atom a and b.
replace(s, a, b) == [i \in 1..Len(s) |-> IF s[i] = a THEN b ELSE s[i]]

RECURSIVE lstrip(_)
lstrip(s) == IF s # << >> /\ Head(s) \in Whitespace THEN lstrip(Tail(s)) ELSE s

RECURSIVE rstrip(_)
rstrip(s) ==
    IF s # << >> /\ s[Len(s)] \in Whitespace
    THEN rstrip(SubSeq(s, 1, Len(s) - 1)) ELSE s

\* s.strip()
strip(s) == rstrip(lstrip(s))

startswith(s, p) == Len(s) >= Len(p) /\ SubSeq(s, 1, Len(p)) = p

endswith(s, p) == Len(s) >= Len(p) /\ SubSeq(s, Len(s) - Len(p) + 1, Len(s)) = p

removesuffix(s, p) == IF endswith(s, p) THEN SubSeq(s, 1, Len(s) - Len(p)) ELSE s

\* os.path.join
path_join(parts) == join(<<"/">>, parts)

\* os.path.basename
basename(p) == LET parts == split(p, "/") IN parts[Len(parts)]

\* os.path.dirname
dirname(p) ==
    LET parts == split(p, "/") IN path_join(SubSeq(parts, 1, Len(parts) - 1))

IsPrefix(s, t) == Len(s) <= Len(t) /\ SubSeq(t, 1, Len(s)) = s

\* float(s) on the decimal texts the model uses: <<text, value>>; a value is
\* named by its shortest text.
FloatTable ==
    { <<"12.5", "12.5">>, <<"12.5000", "12.5">>, <<"0.25", "0.25">>,
      <<"0", "0.0">>, <<"1", "1.0">>, <<"2", "2.0">>, <<"3", "3.0">>,
      <<"4", "4.0">>, <<"5", "5.0">> }

IsFloat(s) == Len(strip(s)) = 1 /\ \E p \in FloatTable : p[1] = strip(s)[1]

float(s) == (CHOOSE p \in FloatTable : p[1] = strip(s)[1])[2]

\* f"{x:.4f}" of a float value.
fmt4(x) == << (CHOOSE p \in {<<"12.5", "12.5000">>, <<"3.0", "3.0000">>} : p[1] = x)[2] >>

\* f.readlines(): the lines of a text, each with its line end.
readlines(text) ==
    LET RECURSIVE go(_, _)
        go(r, cur) ==
            IF r = << >> THEN (IF cur = << >> THEN << >> ELSE << cur >>)
            ELSE IF Head(r) = "\n" THEN << Append(cur, "\n") >> \o go(Tail(r), << >>)
            ELSE go(Tail(r), Append(cur, Head(r)))
    IN go(text, << >>)

\* csv.writer(f).writerow(fields): the line written (no field of the model
\* holds a comma, a quote or a line end, so no field is quoted).
csv_line(fields) == join(<<",">>, fields)

\* csv.reader: the fields of one line.
csv_fields(line) == split(line, ",")

\* ------------------------------------------------- test.py: configuration

VARIABLES
    target,      \* args.target of the running invocation
    Z,           \* args.z of the running invocation
    pc,          \* position of the harness process
    run,         \* invocations started so far
    runLimit,    \* invocations this behaviour may start
    sweepCut,    \* combinations of the sweep this behaviour runs
    solverOut,   \* what the solver binaries print in this behaviour
    ii,          \* index of the instance being tested
    vi,          \* index of the solver variant being run
    inp,         \* path of the instance being tested
    out,         \* output path of the solver run in progress
    outText,     \* the text of the file at out
    centers,     \* cluster count read from the solver's output
    result,      \* formatted score of the judge
    returncode,  \* exit code of the last subprocess waited for: << >> or <<rc>>
    fs,          \* the instance files (*.in) under data/: path -> text
    csvFile,     \* results_<target>_z<Z>.csv on disk: <<target, Z>> -> lines
    buf,         \* lines written to the open results file, not yet on disk
    running,     \* external subprocesses started and not yet waited for
    trace,       \* history: the events of the instance being tested
    written,     \* history: the rows passed to writerow in this invocation
    startLen,    \* history: lines of the results file when it was opened
    outs,        \* history: output paths opened for the current instance
    instWritten, \* history: instance paths written in this invocation
    \* graphs.py: plot_file
    lines,       \* the CSV rows read so far
    by_dimension,
    by_size,
    perr         \* the exception that ended plot_file, or "none"

harnessVars ==
    << target, Z, pc, run, runLimit, sweepCut, solverOut, ii, vi, inp, out, outText,
       centers, result, returncode, fs, csvFile, buf, running, trace, written,
       startLen, outs, instWritten >>

plotVars == << lines, by_dimension, by_size, perr >>

vars == << harnessVars, plotVars >>

BUILD_DIR == <<"build">>
DATA_DIR == <<"data">>
GEN_DATA_DIR == <<"gen">>
GENERATOR == <<"data", "_", "gen", "_", "z">> \o str(Z)

HASH_SEED == <<"60042651f648e052">>
GRID_HASHING == <<"grid", "_", "hashing">>
FACE_HASHING == <<"face", "_", "hashing">>

FACILITY_JUDGE == <<"facility", "_", "set", "_", "cost", "_", "z">> \o str(Z)
FACILITY_SOLUTIONS ==
    << <<"mettu", "_", "plaxton", "_", "z">> \o str(Z) >>
    \o [i \in 1..2 |-> <<"facility", "_", "set", "_", "z">> \o str(Z)]
FACILITY_SOLUTION_ARGS ==
    << << >>,
       << GRID_HASHING, HASH_SEED >>,
       << FACE_HASHING, HASH_SEED >> >>
FACILITY_COST == 1

CLUSTERING_JUDGE == <<"clustering", "_", "cost", "_", "z">> \o str(Z)
CLUSTERING_SOLUTIONS ==
    [i \in 1..(IF Z = 1 THEN 2 ELSE 1) |-> <<"scikit", "_", "z">> \o str(Z)]
    \o [i \in 1..2 |-> <<"clustering", "_", "z">> \o str(Z)]
CLUSTERING_SOLUTION_ARGS ==
    (IF Z = 1 THEN << << <<"alternate">> >>, << <<"pam">> >> >> ELSE << << << >> >> >>)
    \o << << GRID_HASHING, HASH_SEED >>,
          << FACE_HASHING, HASH_SEED >> >>

SIZES == <<100, 500, 1000, 5000, 10000, 50000, 100000, 500000, 1000000>>
DIMENSIONS == <<2, 5, 10>>

\* int(size**0.5)
isqrt(n) == CHOOSE k \in 0..1000 : k * k <= n /\ (k + 1) * (k + 1) > n

\* zip(SOLUTIONS, SOLUTION_ARGS, strict=True) of the target.
Variants ==
    IF target = "fl"
    THEN [i \in 1..Len(FACILITY_SOLUTIONS) |->
            [solution |-> FACILITY_SOLUTIONS[i], args |-> FACILITY_SOLUTION_ARGS[i]]]
    ELSE [i \in 1..Len(CLUSTERING_SOLUTIONS) |->
            [solution |-> CLUSTERING_SOLUTIONS[i], args |-> CLUSTERING_SOLUTION_ARGS[i]]]

\* The (size, dimension) pairs of "for size in SIZES: for dimension in
\* DIMENSIONS", in order, cut after sweepCut pairs.
SweepPairs ==
    LET all == [k \in 1..(Len(SIZES) * Len(DIMENSIONS)) |->
                  [kind |-> "gen",
                   size |-> SIZES[((k - 1) \div Len(DIMENSIONS)) + 1],
                   dimension |-> DIMENSIONS[((k - 1) % Len(DIMENSIONS)) + 1]]]
    IN SubSeq(all, 1, sweepCut)

\* The instances one invocation tests, in order (the __main__ block).
Instances ==
    (IF target = "cl" THEN << [kind |-> "iris", size |-> 0, dimension |-> 0] >> ELSE << >>)
    \o SweepPairs
    \o (IF target = "cl" THEN << [kind |-> "imdb", size |-> 0, dimension |-> 0] >> ELSE << >>)

\* --------------------------------------------------- test.py: operations

\* open(path, "w") and the writes that follow, seen on the instance files.
Put(f, k, v) == [x \in DOMAIN f \cup {k} |-> IF x = k THEN v ELSE f[x]]

\* A write to a path that is no instance file leaves the instance files alone.
Overwrite(f, k, v) == IF k \in DOMAIN f THEN [f EXCEPT ![k] = v] ELSE f

Event(e, ok) == [ev |-> e, ok |-> ok, vi |-> vi]

ResultsKey == << target, Z >>

\* Exit codes of an external binary.
ExitCodes == {0, 1}

\* What a judge binary may print.
JudgeStdouts == { <<"12.5", "\n">>, <<"error", "\n">> }

\* What the solver binaries may print: cluster lines, blank lines and lines
\* of white space.
SolverOutputs ==
    { << >>,
      <<"1", " ", "2", "\n">>,
      <<"1", " ", "2", "\n", "\n", "3", " ", "4", "\n">>,
      <<" ", "\n", "1", " ", "2", "\n", "3", " ", "4", "\n", "5", " ", "1">> }

DefaultSolverOutput == <<"1", " ", "2", "\n", "\n", "3", " ", "4", "\n">>

\* What the generator binary prints for a line on its standard input.
GeneratorOutput(stdin) == stdin \o <<"points", " ", "of", " ">> \o GENERATOR \o <<"\n">>

\* The file path gen() writes.
gen_path(size, dimension) ==
    path_join(<< DATA_DIR, GEN_DATA_DIR,
                 <<"gen", "_", "n">> \o str(size) \o <<"_", "d">> \o str(dimension)
                    \o <<".", "in">> >>)

\* The line gen() feeds the generator.
gen_stdin(size, dimension, k_or_cost) ==
    str(size) \o <<" ">> \o str(dimension) \o <<" ">> \o str(k_or_cost) \o <<"\n">>

\* The third argument of gen() in the __main__ block.
gen_param(size) == IF target = "fl" THEN FACILITY_COST ELSE isqrt(size)

\* iris/iris.data and maas_imdb/maas_imdb.csv, as shipped with the data.
IRIS_DATA ==
    <<"5.1", ",", "3.5", ",", "Iris-setosa", "\n",
      "7.0", ",", "3.2", ",", "Iris-versicolor", "\n">>
IMDB_DATA ==
    <<"id", ",", "label", ",", "w1", ",", "w2", "\n",
      "r1", ",", "pos", ",", "0", ",", "2", "\n",
      "r2", ",", "neg", ",", "1", ",", "0", "\n">>

iris_path == path_join(<< DATA_DIR, <<"iris">>, <<"iris", ".", "in">> >>)
imdb_path == path_join(<< DATA_DIR, <<"maas", "_", "imdb">>, <<"maas", "_", "imdb", ".", "in">> >>)

\* The text gen_iris() writes.
iris_text ==
    LET plants == [i \in 1..Len(split(strip(IRIS_DATA), "\n")) |->
                      split(split(strip(IRIS_DATA), "\n")[i], ",")]
    IN  str(Len(plants)) \o <<" ">> \o str(Len(plants[1]) - 1) \o <<" ", "3", "\n">>
        \o Concat([i \in 1..Len(plants) |->
                      join(<<" ">>, SubSeq(plants[i], 1, Len(plants[i]) - 1)) \o <<"\n">>])

\* The text gen_imdb() writes.
imdb_text ==
    LET rows == split(strip(IMDB_DATA), "\n")
        words == [i \in 1..(Len(rows) - 1) |-> csv_fields(rows[i + 1])]
    IN  str(Len(words)) \o <<" ">> \o str(Len(words[1]) - 2) \o <<" ", "200", "\n">>
        \o Concat([i \in 1..Len(words) |->
                      join(<<" ">>, SubSeq(words[i], 3, Len(words[i]))) \o <<"\n">>])

\* Faulty variants of output_path: the args left out of the name; the solver's
\* standard output opened on the input path.
output_path_no_args(input_path, solution, args) ==
    removesuffix(input_path, <<".", "in">>) \o <<".">> \o solution \o <<".", "out">>
output_path_input(input_path, solution, args) == input_path

\* The output path solve() derives.
output_path(input_path, solution, args) ==
    removesuffix(input_path, <<".", "in">>) \o <<".">> \o solution \o <<".">>
        \o join(<<".">>, args) \o <<".", "out">>

\* Faulty variant of count_centers: len(f.readlines()), blank lines counted.
count_all_lines(text) == Len(readlines(text))

\* len(list(filter(lambda r: r.strip(), f.readlines())))
count_centers(text) ==
    Cardinality({i \in 1..Len(readlines(text)) : strip(readlines(text)[i]) # << >>})

\* time.time() - start_time, as the CSV writer prints it.
SOL_TIME == <<"0.25">>

\* The tuple test_facility_location / test_clustering passes to writerow.
result_row ==
    IF target = "fl"
    THEN << basename(inp), Variants[vi].solution, join(<<" ">>, Variants[vi].args),
            result, SOL_TIME >>
    ELSE << basename(inp), Variants[vi].solution, join(<<" ">>, Variants[vi].args),
            str(centers), result, SOL_TIME >>

\* The process ends: its variables are gone.
Exit ==
    /\ pc' = "idle"
    /\ target' = "fl" /\ Z' = 1
    /\ ii' = 1 /\ vi' = 1
    /\ inp' = << >> /\ out' = << >> /\ outText' = << >>
    /\ centers' = 0 /\ result' = << >> /\ returncode' = << >>
    /\ trace' = << >> /\ written' = << >> /\ startLen' = 0 /\ outs' = << >>
    /\ instWritten' = {}

\* Faulty variant of CloseResults: the file written as if opened with "w".
CloseResults_truncate ==
    /\ csvFile' = [csvFile EXCEPT ![ResultsKey] = SubSeq(@, startLen + 1, Len(@)) \o buf]
    /\ buf' = << >>

\* Leaving the "with open(..., 'a')" block, normally or by an exception:
\* the file is closed, what the buffer holds reaches the disk.
CloseResults ==
    /\ csvFile' = [csvFile EXCEPT ![ResultsKey] = @ \o buf]
    /\ buf' = << >>

\* An uncaught exception: the invocation ends with a stack trace.
Abort == Exit /\ CloseResults

\* What no operation of the harness changes.
Fixed == << runLimit, sweepCut, solverOut, plotVars >>

\* test.py <target> <z>: the results file is opened for appending.
main_open(t, z) ==
    /\ pc = "idle" /\ run < runLimit
    /\ target' = t /\ Z' = z
    /\ run' = run + 1
    /\ pc' = "main"
    /\ startLen' = Len(csvFile[<< t, z >>])
    /\ UNCHANGED << ii, vi, inp, out, outText, centers, result, returncode, fs,
                    csvFile, buf, running, trace, written, outs, instWritten >>
    /\ UNCHANGED Fixed

\* gen_iris(): the iris instance is written, then tested.
gen_iris ==
    /\ pc = "main" /\ ii <= Len(Instances) /\ Instances[ii].kind = "iris"
    /\ fs' = Put(fs, iris_path, iris_text)
    /\ inp' = iris_path
    /\ pc' = "test" /\ vi' = 1 /\ outs' = << >>
    /\ trace' = << Event("written", TRUE) >>
    /\ instWritten' = instWritten \cup {iris_path}
    /\ UNCHANGED << target, Z, run, ii, out, outText, centers, result, returncode,
                    csvFile, buf, running, written, startLen >>
    /\ UNCHANGED Fixed

\* gen_imdb(): the word-count instance is written, then tested.
gen_imdb ==
    /\ pc = "main" /\ ii <= Len(Instances) /\ Instances[ii].kind = "imdb"
    /\ fs' = Put(fs, imdb_path, imdb_text)
    /\ inp' = imdb_path
    /\ pc' = "test" /\ vi' = 1 /\ outs' = << >>
    /\ trace' = << Event("written", TRUE) >>
    /\ instWritten' = instWritten \cup {imdb_path}
    /\ UNCHANGED << target, Z, run, ii, out, outText, centers, result, returncode,
                    csvFile, buf, running, written, startLen >>
    /\ UNCHANGED Fixed

\* gen(): open(filepath, "w") truncates the file, Popen starts the generator.
gen_Popen ==
    /\ pc = "main" /\ ii <= Len(Instances) /\ Instances[ii].kind = "gen"
    /\ fs' = Put(fs, gen_path(Instances[ii].size, Instances[ii].dimension), << >>)
    /\ running' = running \cup {"generator"}
    /\ returncode' = << >>
    /\ pc' = "gen"
    /\ trace' = << Event("gen_start", TRUE) >>
    /\ UNCHANGED << target, Z, run, ii, vi, inp, out, outText, centers, result,
                    csvFile, buf, written, startLen, outs, instWritten >>
    /\ UNCHANGED Fixed

\* gen(): communicate() waits for the generator; assert returncode == 0.
gen_communicate(rc) ==
    LET filepath == gen_path(Instances[ii].size, Instances[ii].dimension)
        stdin == gen_stdin(Instances[ii].size, Instances[ii].dimension,
                           gen_param(Instances[ii].size))
    IN
    /\ pc = "gen"
    /\ running' = running \ {"generator"}
    /\ fs' = Put(fs, filepath, IF rc = 0 THEN GeneratorOutput(stdin) ELSE << >>)
    /\ IF rc = 0
       THEN /\ returncode' = << rc >>
            /\ inp' = filepath
            /\ pc' = "test" /\ vi' = 1 /\ outs' = << >>
            /\ trace' = Append(trace, Event("gen_exit", TRUE))
            /\ instWritten' = instWritten \cup {filepath}
            /\ UNCHANGED << target, Z, ii, out, outText, centers, result, csvFile, buf,
                            written, startLen >>
       ELSE Abort
    /\ UNCHANGED << run >>
    /\ UNCHANGED Fixed

\* solve(): the output file is opened for writing, Popen starts the solver.
solve_Popen ==
    /\ pc = "test" /\ vi <= Len(Variants)
    /\ out' = output_path(inp, Variants[vi].solution, Variants[vi].args)
    /\ outText' = << >>
    /\ fs' = Overwrite(fs, out', << >>)
    /\ outs' = Append(outs, out')
    /\ running' = running \cup {"solver"}
    /\ returncode' = << >>
    /\ pc' = "solve"
    /\ trace' = Append(trace, Event("solve_start", TRUE))
    /\ UNCHANGED << target, Z, run, ii, vi, inp, centers, result, csvFile, buf,
                    written, startLen, instWritten >>
    /\ UNCHANGED Fixed

\* Faulty variant of solve_wait: poll() in place of wait(), the solver left running.
solve_wait_poll(rc) ==
    /\ pc = "solve"
    /\ returncode' = << rc >>
    /\ outText' = solverOut
    /\ centers' = IF target = "cl" THEN count_centers(outText') ELSE centers
    /\ pc' = "judge"
    /\ trace' = Append(trace, Event("solve_exit", TRUE))
    /\ UNCHANGED << target, Z, ii, vi, inp, out, result, csvFile, buf, written,
                    startLen, outs, instWritten, run, fs, running >>
    /\ UNCHANGED Fixed

\* solve(): wait() for the solver; assert rc == 0.  test_clustering then
\* counts the non-blank lines of the output file.
solve_wait(rc) ==
    /\ pc = "solve"
    /\ running' = running \ {"solver"}
    /\ fs' = Overwrite(fs, out, IF rc = 0 THEN solverOut ELSE << >>)
    /\ IF rc = 0
       THEN /\ returncode' = << rc >>
            /\ outText' = solverOut
            /\ centers' = IF target = "cl" THEN count_centers(outText') ELSE centers
            /\ pc' = "judge"
            /\ trace' = Append(trace, Event("solve_exit", TRUE))
            /\ UNCHANGED << target, Z, ii, vi, inp, out, result, csvFile, buf, written,
                            startLen, outs, instWritten >>
       ELSE Abort
    /\ UNCHANGED << run >>
    /\ UNCHANGED Fixed

\* judge(): Popen starts the judge.
judge_Popen ==
    /\ pc = "judge"
    /\ running' = running \cup {"judge"}
    /\ returncode' = << >>
    /\ pc' = "judging"
    /\ trace' = Append(trace, Event("judge_start", TRUE))
    /\ UNCHANGED << target, Z, run, ii, vi, inp, out, outText, centers, result, fs,
                    csvFile, buf, written, startLen, outs, instWritten >>
    /\ UNCHANGED Fixed

\* judge(): communicate() waits for the judge; its output is parsed as a
\* float (the exit code is not looked at) and formatted with four decimals.
judge_communicate(rc, stdout) ==
    /\ pc = "judging"
    /\ running' = running \ {"judge"}
    /\ IF IsFloat(stdout)
       THEN /\ returncode' = << rc >>
            /\ result' = fmt4(float(stdout))
            /\ pc' = "row"
            /\ trace' = Append(trace, Event("judge_exit", TRUE))
            /\ UNCHANGED << target, Z, ii, vi, inp, out, outText, centers, csvFile, buf,
                            written, startLen, outs, instWritten >>
       ELSE Abort
    /\ UNCHANGED << run, fs >>
    /\ UNCHANGED Fixed

\* results.writerow(...): the line goes to the buffer of the results file,
\* which is written through when it is full.
writerow ==
    /\ pc = "row"
    /\ LET b == Append(buf, csv_line(result_row))
       IN  IF Len(b) >= BufRows
           THEN /\ csvFile' = [csvFile EXCEPT ![ResultsKey] = @ \o b]
                /\ buf' = << >>
           ELSE /\ buf' = b
                /\ UNCHANGED csvFile
    /\ written' = Append(written, result_row)
    /\ trace' = Append(trace, Event("append", TRUE))
    /\ vi' = vi + 1
    /\ pc' = "test"
    /\ UNCHANGED << target, Z, run, ii, inp, out, outText, centers, result, returncode,
                    fs, running, startLen, outs, instWritten >>
    /\ UNCHANGED Fixed

\* The loop over the variants is done: on to the next instance.
test_return ==
    /\ pc = "test" /\ vi > Len(Variants)
    /\ ii' = ii + 1
    /\ pc' = "main"
    /\ UNCHANGED << target, Z, run, vi, inp, out, outText, centers, result, returncode,
                    fs, csvFile, buf, running, trace, written, startLen, outs,
                    instWritten >>
    /\ UNCHANGED Fixed

\* The last instance is done: the with block closes the results file.
main_close ==
    /\ pc = "main" /\ ii > Len(Instances)
    /\ Exit /\ CloseResults
    /\ UNCHANGED << run, fs, running >>
    /\ UNCHANGED Fixed

Targets == {"fl", "cl"}
Zs == {1, 2}

HarnessInit ==
    /\ target = "fl" /\ Z = 1
    /\ pc = "idle" /\ run = 0
    /\ ii = 1 /\ vi = 1
    /\ inp = << >> /\ out = << >> /\ outText = << >>
    /\ centers = 0 /\ result = << >> /\ returncode = << >>
    /\ fs = << >>
    /\ csvFile = [k \in Targets \X Zs |-> << >>]
    /\ buf = << >>
    /\ running = {}
    /\ trace = << >> /\ written = << >> /\ startLen = 0 /\ outs = << >>
    /\ instWritten = {}

PlotIdle ==
    /\ lines = << >> /\ by_dimension = << >> /\ by_size = << >> /\ perr = "none"

HarnessNext ==
    \/ \E t \in Targets, z \in Zs : main_open(t, z)
    \/ gen_iris
    \/ gen_imdb
    \/ gen_Popen
    \/ \E rc \in ExitCodes : gen_communicate(rc)
    \/ solve_Popen
    \/ \E rc \in ExitCodes : solve_wait(rc)
    \/ judge_Popen
    \/ \E rc \in ExitCodes, stdout \in JudgeStdouts : judge_communicate(rc, stdout)
    \/ writerow
    \/ test_return
    \/ main_close

\* One invocation of test.py, with any target and z, against solver binaries
\* that print any text of SolverOutputs.
Init ==
    /\ HarnessInit /\ PlotIdle
    /\ runLimit = 1 /\ sweepCut = MaxInstances
    /\ solverOut \in SolverOutputs

Next == HarnessNext

Spec == Init /\ [][Next]_vars

\* Up to MaxRuns invocations, one after the other, on the same disk.
InitRuns ==
    /\ HarnessInit /\ PlotIdle
    /\ runLimit = MaxRuns /\ sweepCut = RunInstances
    /\ solverOut = DefaultSolverOutput

SpecRuns == InitRuns /\ [][Next]_vars

\* ------------------------------------------------------ graphs.py: plot_file

Name(words) == join(<<" ">>, words)

MettuPlaxton == <<"Mettu-Plaxton">>
KMedoidsAlternate == Name(<< <<"K-medoids">>, <<"alternate">>, <<"(scikit-learn-extra)">> >>)
KMedoidsPAM == Name(<< <<"K-medoids">>, <<"PAM">>, <<"(scikit-learn-extra)">> >>)
KMeans == Name(<< <<"K-means++">>, <<"(scikit-learn)">> >>)
GridHashing == Name(<< <<"Grid">>, <<"hashing">> >>)
FaceHashing == Name(<< <<"Face">>, <<"hashing">> >>)

SOLUTION_COLORS ==
    (MettuPlaxton :> "red") @@ (KMedoidsAlternate :> "red") @@ (KMedoidsPAM :> "orange")
    @@ (KMeans :> "red") @@ (GridHashing :> "blue") @@ (FaceHashing :> "green")

SOLUTION_MARKER ==
    (MettuPlaxton :> "o") @@ (KMedoidsAlternate :> "o") @@ (KMedoidsPAM :> "d")
    @@ (KMeans :> "o") @@ (GridHashing :> "^") @@ (FaceHashing :> "v")

Raised(e) == [err |-> e, name |-> << >>]
Named(n) == [err |-> "none", name |-> n]

\* Faulty variant of classify: the two-token form ends in "else" where the code has
\* "elif ... else raise".
classify_fallthrough(solution, argsField) ==
    LET args == split_ws(argsField) IN
    IF Len(args) = 2
    THEN IF args[1] = GRID_HASHING THEN Named(GridHashing) ELSE Named(FaceHashing)
    ELSE IF startswith(solution, <<"mettu", "_", "plaxton">>) THEN Named(MettuPlaxton)
    ELSE IF startswith(solution, <<"scikit">>)
         THEN IF solution = <<"scikit", "_", "z", "1">>
              THEN IF Len(args) = 0 THEN Raised("IndexError: list index out of range")
                   ELSE IF args[1] = <<"alternate">> THEN Named(KMedoidsAlternate)
                        ELSE Named(KMedoidsPAM)
              ELSE Named(KMeans)
    ELSE Raised("ValueError: Unknown solution")

\* Faulty variant of classify: args[0] is read for every scikit label, before the
\* label is compared with "scikit_z1".
classify_args_first(solution, argsField) ==
    LET args == split_ws(argsField) IN
    IF Len(args) = 2
    THEN IF args[1] = GRID_HASHING THEN Named(GridHashing)
         ELSE IF args[1] = FACE_HASHING THEN Named(FaceHashing)
         ELSE Raised("ValueError: Unrecognized argument")
    ELSE IF startswith(solution, <<"mettu", "_", "plaxton">>) THEN Named(MettuPlaxton)
    ELSE IF startswith(solution, <<"scikit">>)
         THEN IF Len(args) = 0 THEN Raised("IndexError: list index out of range")
              ELSE IF solution = <<"scikit", "_", "z", "1">>
                   THEN IF args[1] = <<"alternate">> THEN Named(KMedoidsAlternate)
                        ELSE Named(KMedoidsPAM)
                   ELSE Named(KMeans)
    ELSE Raised("ValueError: Unknown solution")

\* The display name plot_file gives a row's solver label and args field, or
\* the exception it raises (lines 85-108).
classify(solution, argsField) ==
    LET args == split_ws(argsField) IN
    IF Len(args) = 2
    THEN IF args[1] = GRID_HASHING THEN Named(GridHashing)
         ELSE IF args[1] = FACE_HASHING THEN Named(FaceHashing)
         ELSE Raised("ValueError: Unrecognized argument")
    ELSE IF startswith(solution, <<"mettu", "_", "plaxton">>) THEN Named(MettuPlaxton)
    ELSE IF startswith(solution, <<"scikit">>)
         THEN IF solution = <<"scikit", "_", "z", "1">>
              THEN IF Len(args) = 0 THEN Raised("IndexError: list index out of range")
                   ELSE IF args[1] = <<"alternate">>
                        THEN Named(<<"K-medoids", " ">> \o <<"alternate">>
                                   \o <<" ", "(scikit-learn-extra)">>)
                        ELSE Named(<<"K-medoids", " ">> \o <<"PAM">>
                                   \o <<" ", "(scikit-learn-extra)">>)
              ELSE Named(KMeans)
    ELSE Raised("ValueError: Unknown solution")

\* Faulty variant of bucket_append: bucket[key] = [entry], a plain assignment.
bucket_assign(f, k, e) == Put(f, k, << e >>)

\* defaultdict(list): bucket[key].append(entry)
bucket_append(f, k, e) == Put(f, k, Append(IF k \in DOMAIN f THEN f[k] ELSE << >>, e))

\* s[1:] of a string whose first atom is one character.
drop_first(s) == IF s = << >> THEN << >> ELSE Tail(s)

\* The parts of inp.replace(".", "_").split("_").
name_parts(name) == split(replace(name, ".", "_"), "_")

\* What plot_file does with one line of the CSV (lines 84-115): the buckets
\* after it, or the exception that ends plot_file.
plot_line(line, byd, bys) ==
    IF Len(line) < 3
    THEN [err |-> "ValueError: not enough values to unpack", byd |-> byd, bys |-> bys]
    ELSE
    LET name == line[1]
        c == classify(line[2], line[3])
        params == SubSeq(line, 4, Len(line))
        parts == name_parts(name)
    IN  IF c.err # "none" THEN [err |-> c.err, byd |-> byd, bys |-> bys]
        ELSE IF ~startswith(name, <<"gen">>) THEN [err |-> "none", byd |-> byd, bys |-> bys]
        ELSE IF Len(parts) # 4
             THEN [err |-> "ValueError: unpack", byd |-> byd, bys |-> bys]
        ELSE IF ~IsNumeral(drop_first(parts[2])) \/ ~IsNumeral(drop_first(parts[3]))
             THEN [err |-> "ValueError: invalid literal for int()", byd |-> byd, bys |-> bys]
        ELSE IF \E i \in 1..Len(params) : ~IsFloat(params[i])
             THEN [err |-> "ValueError: could not convert string to float",
                   byd |-> byd, bys |-> bys]
        ELSE LET n == int(drop_first(parts[2]))
                 d == int(drop_first(parts[3]))
                 values == [i \in 1..Len(params) |-> float(params[i])]
             IN  [err |-> "none",
                  byd |-> bucket_append(byd, d, << n, c.name >> \o values),
                  bys |-> bucket_append(bys, n, << d, c.name >> \o values)]

\* The fields of the CSV lines the renderer is fed.
GenName(a, n, b, d) == <<"gen", "_", a, n, "_", b, d, ".", "in">>
PlotNames ==
    { GenName("n", "100", "d", "2"), GenName("n", "100", "d", "5"),
      GenName("n", "500", "d", "2"),
      <<"iris", ".", "in">>, <<"maas", "_", "imdb", ".", "in">>,
      \* names that start with "gen" and are not gen_n<size>_d<dim>.in
      <<"gen", "_", "x", "oo", ".", "in">>, <<"gen", "erated", ".", "in">>,
      GenName("n", "x", "d", "2"), GenName("x", "100", "y", "2") }
PlotSolutions ==
    { <<"mettu", "_", "plaxton", "_", "z", "1">>, <<"scikit", "_", "z", "1">>,
      <<"scikit", "_", "z", "2">>, <<"facility", "_", "set", "_", "z", "1">>,
      <<"kmeans">> }
PlotArgs ==
    { << >>, <<"alternate">>, <<"pam">>, GRID_HASHING \o <<" ">> \o HASH_SEED,
      FACE_HASHING \o <<" ">> \o HASH_SEED, <<"fast", " ">> \o HASH_SEED,
      GRID_HASHING }
FlParams == << <<"12.5000">>, <<"0.25">> >>
ClParams == << <<"3">>, <<"12.5000">>, <<"0.25">> >>
Mettu1 == <<"mettu", "_", "plaxton", "_", "z", "1">>

PlotRows ==
    { << GenName("n", "100", "d", "2"), s, a >> \o FlParams :
         s \in PlotSolutions, a \in PlotArgs }
    \cup { << nm, Mettu1, << >> >> \o FlParams : nm \in PlotNames }
    \cup { << nm, <<"scikit", "_", "z", "1">>, <<"pam">> >> \o ClParams :
             nm \in { GenName("n", "100", "d", "2"), <<"iris", ".", "in">> } }
    \cup { << <<"iris", ".", "in">>, <<"kmeans">>, << >> >> \o FlParams,
           << GenName("n", "100", "d", "2"), Mettu1, << >>, <<"abc">>, <<"0.25">> >>,
           << GenName("n", "100", "d", "2"), Mettu1 >> }

\* plot_file reads the next line of the CSV.
plot_file_line(line) ==
    /\ perr = "none" /\ Len(lines) < MaxRows
    /\ lines' = Append(lines, line)
    /\ LET r == plot_line(line, by_dimension, by_size)
       IN  /\ perr' = r.err
           /\ by_dimension' = r.byd
           /\ by_size' = r.bys
    /\ UNCHANGED harnessVars

PlotInit ==
    /\ HarnessInit /\ PlotIdle
    /\ runLimit = 0 /\ sweepCut = 0 /\ solverOut = << >>

PlotNext == \E line \in PlotRows : plot_file_line(line)

\* plot_file on any CSV of up to MaxRows lines of PlotRows.
SpecPlot == PlotInit /\ [][PlotNext]_vars

\* ------------------------------------------------------------------ claims

\* This step starts an external subprocess / passes a row to writerow.
Started == running' \ running # {}
Appended == Len(written') > Len(written)

\* C1: once an external binary (generator, solver or judge) of the
\* invocation has exited with a non-zero code, no further subprocess is
\* started and no result row is appended.
C1_NonZeroExitAborts ==
    [][(returncode # << >> /\ returncode[1] # 0) => ~(Started \/ Appended)]_vars

\* The CSV lines of the invocation so far, buffered or on disk, as the
\* reader decodes them.
RunLines == SubSeq(csvFile[ResultsKey] \o buf, startLen + 1, Len(csvFile[ResultsKey]) + Len(buf))
AppendsOfInstance == Cardinality({i \in 1..Len(trace) : trace[i].ev = "append"})
InstanceRows ==
    [i \in 1..AppendsOfInstance |->
        csv_fields(RunLines[Len(RunLines) - AppendsOfInstance + i])]

\* C2: for every instance, target and z, the solver variants run on the
\* instance get pairwise distinct output paths and one CSV row each, in
\* configuration order; the rows carry the instance's name and pairwise
\* different (solver, args) fields; when the variants are done there is one
\* path and one row per variant (three for facility location).
C2_VariantRows ==
    pc # "idle" =>
        /\ \A i, j \in 1..Len(outs) : i # j => outs[i] # outs[j]
        /\ AppendsOfInstance <= Len(RunLines)
        /\ \A i \in 1..AppendsOfInstance :
              /\ InstanceRows[i][1] = basename(inp)
              /\ InstanceRows[i][2] = Variants[i].solution
              /\ InstanceRows[i][3] = join(<<" ">>, Variants[i].args)
        /\ \A i, j \in 1..AppendsOfInstance :
              i # j => << InstanceRows[i][2], InstanceRows[i][3] >>
                        # << InstanceRows[j][2], InstanceRows[j][3] >>
        /\ (pc = "test" /\ vi > Len(Variants)) =>
              /\ Len(outs) = Len(Variants)
              /\ AppendsOfInstance = Len(Variants)
              /\ target = "fl" => AppendsOfInstance = 3

\* The three variants of facility location are done on gen_n100_d2.in.
C2_Witness ==
    /\ target = "fl" /\ pc = "test" /\ vi > Len(Variants)
    /\ inp = gen_path(100, 2)
    /\ Cardinality({outs[i] : i \in 1..Len(outs)}) = 3
    /\ AppendsOfInstance = 3

\* The path of the ii-th instance of the invocation.
InstancePath(a) ==
    IF Instances[a].kind = "iris" THEN iris_path
    ELSE IF Instances[a].kind = "imdb" THEN imdb_path
    ELSE gen_path(Instances[a].size, Instances[a].dimension)

\* C3: the results CSV of every (target, z) is append-only over any sequence
\* of invocations: each step leaves the earlier content as a prefix; when an
\* invocation ends, completed or aborted, the file holds what it held when
\* opened followed by exactly the rows the invocation appended; and a
\* completed invocation has appended one row for every (instance, variant),
\* whatever the file held before.
C3_AppendOnly ==
    [][ /\ \A k \in DOMAIN csvFile : IsPrefix(csvFile[k], csvFile'[k])
        /\ (pc # "idle" /\ pc' = "idle") =>
              csvFile'[ResultsKey] =
                 SubSeq(csvFile[ResultsKey], 1, startLen)
                 \o [i \in 1..Len(written) |-> csv_line(written[i])]
        /\ (pc = "main" /\ ii > Len(Instances) /\ pc' = "idle") =>
              /\ Len(written) = Len(Instances) * Len(Variants)
              /\ \A a \in 1..Len(Instances), b \in 1..Len(Variants) :
                    SubSeq(written[(a - 1) * Len(Variants) + b], 1, 3) =
                       << basename(InstancePath(a)), Variants[b].solution,
                          join(<<" ">>, Variants[b].args) >>
      ]_vars

\* A second invocation of "fl 1" has completed after a first: its rows
\* follow the equal rows of the first.
C3_Witness ==
    LET f == csvFile[<< "fl", 1 >>] IN
    /\ run = 2 /\ pc = "idle"
    /\ Len(f) = 2 * Len(FACILITY_SOLUTIONS) * RunInstances
    /\ SubSeq(f, 1, Len(f) \div 2) = SubSeq(f, (Len(f) \div 2) + 1, Len(f))

\* The rows read without an exception.
Processed == IF perr = "none" THEN lines ELSE SubSeq(lines, 1, Len(lines) - 1)
Entries(buckets) ==
    LET RECURSIVE sum(_)
        sum(S) == IF S = {} THEN 0
                  ELSE LET k == CHOOSE x \in S : TRUE IN Len(buckets[k]) + sum(S \ {k})
    IN sum(DOMAIN buckets)

\* A row whose args field has two tokens, the first neither grid_hashing nor
\* face_hashing; a row with another number of tokens whose label starts with
\* neither mettu_plaxton nor scikit.
BadArgument(line) ==
    /\ Len(line) >= 3
    /\ Len(split_ws(line[3])) = 2
    /\ split_ws(line[3])[1] \notin {GRID_HASHING, FACE_HASHING}
BadSolution(line) ==
    /\ Len(line) >= 3
    /\ Len(split_ws(line[3])) # 2
    /\ ~startswith(line[2], <<"mettu", "_", "plaxton">>)
    /\ ~startswith(line[2], <<"scikit">>)

\* C4: plot_file raises "Unrecognized argument" on a row whose args field
\* has two tokens and whose first token is neither grid_hashing nor
\* face_hashing, raises an error on a row with another number of tokens whose
\* label starts with neither mettu_plaxton nor scikit, and puts no such row
\* into a bucket.
C4_UnrecognizedRaises ==
    /\ \A i \in 1..Len(lines) :
          /\ BadArgument(lines[i]) =>
                i = Len(lines) /\ perr = "ValueError: Unrecognized argument"
          /\ BadSolution(lines[i]) =>
                i = Len(lines) /\ perr = "ValueError: Unknown solution"
    /\ LET good == Cardinality({i \in 1..Len(lines) :
                       ~BadArgument(lines[i]) /\ ~BadSolution(lines[i])})
       IN  Entries(by_dimension) <= good /\ Entries(by_size) <= good

\* A row was put into the buckets, then a row with an unrecognized first
\* token of two ended plot_file.
C4_Witness ==
    /\ Len(lines) = 2 /\ BadArgument(lines[2])
    /\ perr = "ValueError: Unrecognized argument"
    /\ Entries(by_dimension) = 1

\* The instance name is gen_n<size>_d<dim>.in.
MatchesPattern(name) ==
    /\ Len(name) = 9
    /\ SubSeq(name, 1, 3) = <<"gen", "_", "n">> /\ IsNumeral(<< name[4] >>)
    /\ SubSeq(name, 5, 6) = <<"_", "d">> /\ IsNumeral(<< name[7] >>)
    /\ SubSeq(name, 8, 9) = <<".", "in">>

\* A row plot_file can label, with float parameters.
WellFormed(line) ==
    /\ Len(line) >= 3
    /\ classify(line[2], line[3]).err = "none"
    /\ \A i \in 4..Len(line) : IsFloat(line[i])

\* C5: a row whose instance name is not gen_n<size>_d<dim>.in is skipped:
\* it raises no error, goes into no bucket, and the rows after it are read.
C5_NonMatchingSkipped ==
    /\ \A i \in 1..Len(lines) :
          (WellFormed(lines[i]) /\ ~MatchesPattern(lines[i][1])) =>
              (i = Len(lines) => perr = "none")
    /\ Entries(by_dimension) <=
          Cardinality({i \in 1..Len(lines) :
                          Len(lines[i]) >= 3 /\ MatchesPattern(lines[i][1])})

\* The lines of a text that hold something other than white space.
NonBlankLines(text) ==
    Cardinality({i \in 1..Len(split(text, "\n")) :
                    \E j \in 1..Len(split(text, "\n")[i]) :
                        split(text, "\n")[i][j] \notin Whitespace})

\* The bucket entry plot_file builds from a CSV line.
PlotEntries(line) == plot_line(csv_fields(line), << >>, << >>).byd

\* C6 as stated: a result row has 4 fields for facility location and 5 for
\* clustering.
C6_FieldCounts ==
    \A i \in 1..Len(RunLines) :
        Len(csv_fields(RunLines[i])) = IF target = "fl" THEN 4 ELSE 5

\* C6, amended: a result row has 5 fields for facility location (instance,
\* solver, args, score, time) and 6 for clustering; the entry the plot
\* renderer builds from it has 4 and 5.  The extra clustering field, the
\* fourth, is the number of non-blank lines of the solver's output file.
C6_RowShape ==
    /\ \A i \in 1..Len(RunLines) :
          /\ Len(csv_fields(RunLines[i])) = IF target = "fl" THEN 5 ELSE 6
          /\ startswith(csv_fields(RunLines[i])[1], <<"gen">>) =>
                \A d \in DOMAIN PlotEntries(RunLines[i]) :
                    Len(PlotEntries(RunLines[i])[d][1]) = IF target = "fl" THEN 4 ELSE 5
    /\ (target = "cl" /\ pc = "test" /\ vi > 1) =>
          csv_fields(RunLines[Len(RunLines)])[4] = str(NonBlankLines(outText))

\* A clustering row was appended for an output with a blank line, a line of
\* white space and three cluster lines.
C6_Witness ==
    /\ target = "cl" /\ pc = "test" /\ vi > 1
    /\ Len(readlines(outText)) = 4
    /\ csv_fields(RunLines[Len(RunLines)])[4] = <<"3">>
    /\ startswith(basename(inp), <<"gen">>)

\* The entries plot_file is to hold for the rows read: of the rows named
\* gen_<c><n>_<c><d>.<ext>, those with the key, in the order read.
RowSize(line) == int(drop_first(name_parts(line[1])[2]))
RowDim(line) == int(drop_first(name_parts(line[1])[3]))
Recognized(line) == startswith(line[1], <<"gen">>)
RowValues(line) == [i \in 1..(Len(line) - 3) |-> float(line[i + 3])]
RECURSIVE Expected(_, _, _)
Expected(rows, key, byDim) ==
    IF rows = << >> THEN << >>
    ELSE LET r == Head(rows)
             mine == Recognized(r) /\ (IF byDim THEN RowDim(r) ELSE RowSize(r)) = key
         IN  (IF mine
              THEN << << (IF byDim THEN RowSize(r) ELSE RowDim(r)),
                         classify(r[2], r[3]).name >> \o RowValues(r) >>
              ELSE << >>)
             \o Expected(Tail(rows), key, byDim)

C8_InstanceImmutable ==
    [][\A p \in DOMAIN fs : fs[p] # << >> => (p \in DOMAIN fs' /\ fs'[p] = fs[p])]_vars

\* C8, amended: once an instance file has been written, no later step of the
\* same invocation changes its content (a later invocation writes it anew).
C8_ImmutableWithinRun ==
    [][\A p \in instWritten : p \in DOMAIN fs /\ p \in DOMAIN fs' /\ fs'[p] = fs[p]]_vars

\* A second invocation, of clustering, has written and tested its three
\* instances.
C8_Witness ==
    /\ run = 2 /\ target = "cl" /\ pc = "main" /\ ii > Len(Instances)
    /\ Cardinality(instWritten) = Len(Instances)
    /\ \A p \in instWritten : fs[p] # << >>

\* The event at position i of an instance's trace is the one the order asks
\* for, of the variant the order asks for.
Cycle == <<"solve_start", "solve_exit", "judge_start", "judge_exit", "append">>
Lead == IF trace # << >> /\ trace[1].ev = "gen_start" THEN <<"gen_start", "gen_exit">>
        ELSE <<"written">>
InOrder(i) ==
    IF i <= Len(Lead) THEN trace[i].ev = Lead[i] /\ trace[i].ok
    ELSE /\ trace[i].ev = Cycle[((i - Len(Lead) - 1) % 5) + 1]
         /\ trace[i].ok
         /\ trace[i].vi = ((i - Len(Lead) - 1) \div 5) + 1
StartOf == [p \in {"generator", "solver", "judge"} |->
              IF p = "generator" THEN "gen_start"
              ELSE IF p = "solver" THEN "solve_start" ELSE "judge_start"]

\* C9: at most one external subprocess runs at any time, and for every
\* instance the events come in the order generator start and exit with code
\* 0, then per variant solver start, solver exit with code 0, judge start,
\* judge exit with a parsed score, append of the row; a subprocess is
\* running exactly between its start and its exit.
C9_Sequential ==
    /\ Cardinality(running) <= 1
    /\ \A i \in 1..Len(trace) : InOrder(i)
    /\ \A p \in running : trace # << >> /\ trace[Len(trace)].ev = StartOf[p]
    /\ (trace # << >> /\ trace[Len(trace)].ev \in {"gen_start", "solve_start", "judge_start"})
          => running # {}

\* The solver of the second variant runs, after the append of the first row.
C9_Witness ==
    /\ running = {"solver"} /\ vi = 2
    /\ Len(trace) >= 2 /\ trace[Len(trace) - 1].ev = "append"
    /\ trace[1].ev = "gen_start"

\* The lines of a results file, on disk or still in the buffer.
AllLines(k) == csvFile[k] \o (IF pc # "idle" /\ k = ResultsKey THEN buf ELSE << >>)

\* C10: every row the harness appends, for every target, z and variant, is
\* labelled by plot_file without an error, with a display name that is a key
\* of the colour table and of the marker table.
C10_RowsClassified ==
    \A k \in DOMAIN csvFile :
        \A i \in 1..Len(AllLines(k)) :
            LET fields == csv_fields(AllLines(k)[i])
                c == classify(fields[2], fields[3])
            IN  /\ Len(fields) >= 3
                /\ c.err = "none"
                /\ c.name \in DOMAIN SOLUTION_COLORS
                /\ c.name \in DOMAIN SOLUTION_MARKER

\* All the variants of "cl 2" were appended for one instance, the scikit
\* variant with its empty args field first.
C10_Witness ==
    /\ target = "cl" /\ Z = 2 /\ pc = "test" /\ vi > Len(Variants)
    /\ Len(RunLines) >= 3
    /\ csv_fields(RunLines[1])[3] = << >>

====
